---- MODULE Spec2Model ----
(***************************************************************************)
(* Model of the attendance pipeline:                                       *)
(*   incremental_backup.py  checkpointed incremental export of the tables  *)
(*                          to one cumulative remote .sql object per table *)
(*   zoholog_to_db.py       dedup ingest of feed events into two tables    *)
(*   run_all.py             the sequencer of the scripts                   *)
(* Text is modelled as a sequence of tokens, one token per lexical unit    *)
(* the code looks at: the statement header, a newline, a comma, a          *)
(* semicolon and a rendered value tuple "(...)" (which ends with ")").     *)
(***************************************************************************)
EXTENDS Integers, Sequences, FiniteSets, TLC

\* ---- bounds of the model ----
MaxTime == 2
MaxRows == 2
MaxRuns == 2
MaxFeed == 3
PageLen == 2
MaxInt == 11
MaxLen == 2
MaxCode == 3

\* ---- program constants ----
\* "1970-01-01 00:00:00", the default watermark; timestamps are 1..MaxTime
Epoch == 0

\* datetime.now() - timedelta(days=30), the cursor when nothing was synced:
\* a time before every event of the model
Lookback == 0

TABLES == <<"attendance_logs", "raw_device_logs", "raw_zoho_logs">>

TableSet == {TABLES[i] : i \in 1..Len(TABLES)}

Times == 1..MaxTime

Users == {"u1"}

Statuses == {"Check-In", "Check-Out"}

\* the events the feed can return: employeeId, checkInTime/checkOutTime
Events == [u : Users, ts : Times, status : Statuses]

\* the events the export runs are checked with: to the export a row is its
\* timestamp, so one status is enough (equal timestamps come from duplicates)
CheckIns == {e \in Events : e.status = "Check-In"}

Runners == {1, 2}

\* ---- sequences ----
NoRepeat(s) == \A i, j \in 1..Len(s) : s[i] = s[j] => i = j

Range(s) == {s[i] : i \in 1..Len(s)}

\* the sequences over S of length up to n
Seqs(S, n) == UNION {[1..k -> S] : k \in 0..n}

\* ---- text as tokens ----
Tok(k, id) == [k |-> k, id |-> id]

NL == Tok("NL", 0)

COMMA == Tok("COMMA", 0)

SEMI == Tok("SEMI", 0)

HDR == Tok("HDR", 0)

\* the text "(v1, v2, ...)" of the row with the given id
Tup(id) == Tok("TUP", id)

\* the content of a name that find_drive_file does not find
NoFile == <<Tok("ABSENT", 0)>>

\* str.strip(): whitespace removed at both ends
RECURSIVE LStrip(_)
LStrip(s) == IF s # <<>> /\ Head(s) = NL THEN LStrip(Tail(s)) ELSE s

RECURSIVE RStrip(_)
RStrip(s) ==
  IF s # <<>> /\ s[Len(s)] = NL THEN RStrip(SubSeq(s, 1, Len(s) - 1)) ELSE s

strip(s) == RStrip(LStrip(s))

\* str.endswith(";") and str.endswith(")")
\* (variant for C17: the terminator never found, so never removed)
NeverEndsWithSemi(s) == FALSE

EndsWithSemi(s) == s # <<>> /\ s[Len(s)] = SEMI

\* (variant for C12: the closing-tuple marker never found)
NeverEndsWithParen(s) == FALSE

EndsWithParen(s) == s # <<>> /\ s[Len(s)].k = "TUP"

\* ",\n".join(values)
RECURSIVE JoinValues(_)
JoinValues(values) ==
  IF values = <<>> THEN <<>>
  ELSE IF Len(values) = 1 THEN <<values[1]>>
  ELSE <<values[1], COMMA, NL>> \o JoinValues(Tail(values))

\* header of generate_insert_components: "INSERT INTO ... VALUES\n"
Header == <<HDR, NL>>

\* values of generate_insert_components: one tuple per row, in row order
Values(rows) == [i \in 1..Len(rows) |-> Tup(rows[i])]

\* upload_to_gdrive, create branch: header + ",\n".join(new_rows) + ";\n"
CreateContent(new_rows) == Header \o JoinValues(new_rows) \o <<SEMI, NL>>

\* upload_to_gdrive, append branch, from the downloaded text
AppendContent(downloaded, new_rows) ==
  LET stripped == strip(downloaded)
      existing_content ==
        IF EndsWithSemi(stripped)
        THEN strip(SubSeq(stripped, 1, Len(stripped) - 1))
        ELSE stripped
      glue == IF ~EndsWithParen(existing_content) THEN <<NL>> ELSE <<>>
  IN IF new_rows # <<>>
     THEN existing_content \o glue \o <<COMMA, NL>> \o JoinValues(new_rows)
            \o <<SEMI, NL>>
     ELSE existing_content

\* download_drive_file_content: the content, or "" when the download raises
DownloadResult(content, fails) == IF fails THEN <<>> ELSE content

\* upload_to_gdrive: the content it uploads for a target whose content is
\* `existing` (NoFile: find_drive_file returns None)
NewContent(existing, new_rows, dlFails) ==
  IF existing = NoFile
  THEN CreateContent(new_rows)
  ELSE AppendContent(DownloadResult(existing, dlFails), new_rows)

\* ---- the statement serializer, character by character ----
\* the values of a row: None, an int, a float (sign, integer part, one
\* fractional digit), and anything else by the characters of its str()
Chars == {"a", "'", "\\"}

Texts == Seqs(Chars, MaxLen)

NullValue == [t |-> "null"]

IntValue(n) == [t |-> "int", n |-> n]

FloatValue(neg, i, f) == [t |-> "float", neg |-> neg, i |-> i, f |-> f]

TextValue(cs) == [t |-> "text", s |-> cs]

CellValues ==
  {NullValue}
  \cup {IntValue(n) : n \in -MaxInt..MaxInt}
  \cup {FloatValue(neg, i, f) : neg \in BOOLEAN, i \in {0, 1}, f \in {0, 5}}
  \cup {TextValue(cs) : cs \in Texts}

DigitChars == <<"0", "1", "2", "3", "4", "5", "6", "7", "8", "9">>

\* str() of a non-negative int
RECURSIVE Digits(_)
Digits(n) ==
  IF n < 10 THEN <<DigitChars[n + 1]>>
  ELSE Digits(n \div 10) \o <<DigitChars[(n % 10) + 1]>>

\* str() of an int
StrInt(n) == IF n < 0 THEN <<"-">> \o Digits(-n) ELSE Digits(n)

\* str() of a float
StrFloat(v) ==
  (IF v.neg THEN <<"-">> ELSE <<>>) \o Digits(v.i) \o <<".">> \o Digits(v.f)

\* (variant for C18: the text quoted as it is)
NotReplaced(cs) == cs

\* str.replace("'", "''")
RECURSIVE Replace(_)
Replace(cs) ==
  IF cs = <<>> THEN <<>>
  ELSE (IF Head(cs) = "'" THEN <<"'", "'">> ELSE <<Head(cs)>>)
         \o Replace(Tail(cs))

format_value(value) ==
  CASE value.t = "null" -> <<"N", "U", "L", "L">>
    [] value.t = "int" -> StrInt(value.n)
    [] value.t = "float" -> StrFloat(value)
    [] OTHER -> <<"'">> \o Replace(value.s) \o <<"'">>

\* ", ".join(texts)
RECURSIVE JoinCells(_)
JoinCells(texts) ==
  IF texts = <<>> THEN <<>>
  ELSE IF Len(texts) = 1 THEN texts[1]
  ELSE texts[1] \o <<",", " ">> \o JoinCells(Tail(texts))

\* f"({', '.join(format_value(v) for v in row)})"
ValueTuple(row) ==
  <<"(">> \o JoinCells([i \in 1..Len(row) |-> format_value(row[i])])
    \o <<")">>

\* generate_insert_components: (None, None) for no rows, else the header
\* and one value tuple per row
generate_insert_components(rows) ==
  IF rows = <<>>
  THEN [none |-> TRUE, header |-> <<>>, values |-> <<>>]
  ELSE [none |-> FALSE, header |-> Header,
        values |-> [i \in 1..Len(rows) |-> ValueTuple(rows[i])]]

\* ---- the rows a fetch returns ----
\* SELECT * FROM t WHERE timestamp > last_time ORDER BY timestamp ASC
\* (rows are named by their position in the table; ties keep insertion order)
RECURSIVE SortIds(_, _)
SortIds(tbl, S) ==
  IF S = {} THEN <<>>
  ELSE LET m == CHOOSE x \in S :
                  \A y \in S : tbl[x].ts < tbl[y].ts
                               \/ (tbl[x].ts = tbl[y].ts /\ x <= y)
       IN <<m>> \o SortIds(tbl, S \ {m})

\* (variant for C7: the predicate not strict)
NewerOrEqual(ts, last_time) == ts >= last_time

Newer(ts, last_time) == ts > last_time

FetchRows(tbl, last_time) ==
  SortIds(tbl, {i \in 1..Len(tbl) : Newer(tbl[i].ts, last_time)})

\* (variant for C6: the first row's timestamp instead of the last row's)
FirstRowTime(tbl, rows) == tbl[rows[1]].ts

\* new_last_time = str(rows[-1][columns.index("timestamp")])
NewLastTime(tbl, rows) == tbl[rows[Len(rows)]].ts

\* ---- state ----
VARIABLES
  db,          \* table name -> sequence of rows [u, ts, p]
  remote,      \* table name -> content of <table>_incremental_backup.sql
  ckptFile,    \* last_backup_time.json: [st, m]
  localFiles,  \* tables for which an increment file exists under backups/
  run,         \* runner -> the local state of its export run
  runners,     \* the runners that may start a run
  runs,        \* number of export runs started
  dirty,       \* a row was inserted since the latest run started
  lastIns,     \* what the latest insert_log_to_db call did
  feed,        \* the events the external feed holds, in feed order
  ing,         \* the local state of the run of zoholog_to_db.py
  mg,          \* upload_to_gdrive applied to a given object and payload
  ser,         \* generate_insert_components applied to given rows
  seq          \* the local state of run_all.py

\* the variables of the export and of the single insert_log_to_db call
exportVars ==
  <<db, remote, ckptFile, localFiles, run, runners, runs, dirty, lastIns>>

vars == <<exportVars, feed, ing, mg, ser, seq>>

EpochMap == [t \in TableSet |-> Epoch]

IdleRun ==
  [pc |-> "idle", i |-> 1, last |-> EpochMap, upd |-> EpochMap,
   rows |-> <<>>, newTime |-> Epoch, content |-> <<>>,
   \* how the latest run ended: "none", "ok", "error", "aborted", "crashed"
   result |-> "none",
   \* history of the run in progress
   fetched |-> [t \in TableSet |-> <<>>],  \* the rows each fetch returned
   okUp |-> {},       \* tables whose upload_to_gdrive returned True
   dlFailed |-> {},   \* tables whose download raised
   quiet |-> FALSE]   \* the run before ended "ok" and no row came since

NoIns == [called |-> FALSE, existed |-> FALSE, failAt |-> "none",
          addedAtt |-> 0, addedRaw |-> 0, ret |-> FALSE]

\* no call of upload_to_gdrive made yet on a target of the given content
NoMerge(content, payload) ==
  [calls |-> 0,
   before |-> content,     \* the content before the first call
   payload |-> payload,    \* insert_components[1], the value tuples
   obj |-> content,        \* the content now
   raised |-> FALSE,       \* a call raised (find, SetContentString, Upload)
   dlFailed |-> FALSE]     \* download_drive_file_content returned ""

\* generate_insert_components not yet called on the given rows
NoSer(rows) ==
  [called |-> FALSE, rows |-> rows,
   out |-> [none |-> TRUE, header |-> <<>>, values |-> <<>>]]

\* run_all.py: (script, must_run), in list order
scripts ==
  <<[script |-> "insert_log_to_db.py", must_run |-> TRUE],
    [script |-> "zoholog_to_db.py", must_run |-> TRUE],
    [script |-> "order_table.py", must_run |-> FALSE],
    [script |-> "sync_to_zoho.py", must_run |-> FALSE]>>

\* the exit codes of a script; subprocess.run(check=True) raises
\* CalledProcessError for every code but 0
ExitCodes == 0..MaxCode

\* run_all.py before its first statement
IdleSeq ==
  [pc |-> "sleep", i |-> 1,
   started |-> <<>>,   \* the scripts subprocess.run was called for, in order
   codes |-> <<>>]     \* their exit codes

\* zoholog_to_db.py before main() is called
IdleIng ==
  [pc |-> "idle", n |-> 0,
   from_date |-> Lookback,   \* the cursor of this run
   status |-> 0,             \* data["response"]["status"] of the response
   events |-> <<>>,          \* the events of the response, in loop order
   k |-> 1,                  \* the event the loops are at
   inserted_count |-> 0,
   \* how the latest run ended: "none", "tokenError", "requestError",
   \* "badStatus", "parseError", "complete"
   end |-> "none",
   \* history of the run
   checked |-> {},           \* the events passed to insert_log_to_db
   n0 |-> 0]                 \* rows of attendance_logs when the run started

\* empty tables, no remote object, no checkpoint file, nothing running
InitExport ==
  /\ db = [t \in TableSet |-> <<>>]
  /\ remote = [t \in TableSet |-> NoFile]
  /\ ckptFile = [st |-> "absent", m |-> EpochMap]
  /\ localFiles = {}
  /\ run = [r \in Runners |-> IdleRun]
  /\ runs = 0
  /\ dirty = FALSE
  /\ lastIns = NoIns

Init ==
  /\ InitExport
  /\ runners = {1}
  /\ feed = <<>>
  /\ ing = IdleIng
  /\ mg = NoMerge(NoFile, <<>>)
  /\ ser = NoSer(<<>>)
  /\ seq = IdleSeq

\* ---- zoholog_to_db.py: dedup ingest ----
\* punch_type = 0 if status == "Check-In" else 1
PunchType(status) == IF status = "Check-In" THEN 0 ELSE 1

HasKey(tbl, u, ts, p) ==
  \E i \in 1..Len(tbl) : tbl[i].u = u /\ tbl[i].ts = ts /\ tbl[i].p = p

\* log_exists_in_attendance / log_exists_in_raw_zoho: COUNT(*) > 0, and
\* False when the query raises
log_exists_in_attendance(d, u, ts, p, raises) ==
  IF raises THEN FALSE ELSE HasKey(d["attendance_logs"], u, ts, p)

log_exists_in_raw_zoho(d, u, ts, p, raises) ==
  IF raises THEN FALSE ELSE HasKey(d["raw_zoho_logs"], u, ts, p)

\* the two INSERT statements of insert_log_to_db, in order
InsertStatements(e) ==
  LET row == [u |-> e.u, ts |-> e.ts, p |-> PunchType(e.status), src |-> "zoho"]
  IN <<[t |-> "attendance_logs", row |-> row],
       [t |-> "raw_zoho_logs", row |-> row]>>

\* number of statements executed before the step that raises
Executed(failAt) ==
  CASE failAt = "connect" -> 0
    [] failAt = "insert1" -> 0
    [] failAt = "insert2" -> 1
    [] OTHER -> 2

\* the connection runs one transaction: the executed statements become
\* durable at conn.commit(), and are dropped when the connection is closed
\* without it
\* (variant for C10: every statement durable as soon as it is executed)
Autocommit(executed, committed) == executed

Durable(executed, committed) == IF committed THEN executed ELSE <<>>

RECURSIVE ApplyStatements(_, _)
ApplyStatements(d, stmts) ==
  IF stmts = <<>> THEN d
  ELSE ApplyStatements([d EXCEPT ![Head(stmts).t] = Append(@, Head(stmts).row)],
                       Tail(stmts))

FailPoints == {"none", "connect", "insert1", "insert2", "commit"}

\* what goes wrong in one call: nothing, an existence check raises (the first,
\* the second, both), or one step of the insert raises
Faults == {"none", "checkA", "checkR", "checks"} \cup (FailPoints \ {"none"})

RaisesA(fault) == fault \in {"checkA", "checks"}

RaisesR(fault) == fault \in {"checkR", "checks"}

FailAt(fault) == IF fault \in FailPoints THEN fault ELSE "none"

\* the database after insert_log_to_db(e); raisesA / raisesR: the existence
\* check raises; failAt: the step of the insert that raises
insert_log_to_db(d, e, raisesA, raisesR, failAt) ==
  LET p == PunchType(e.status)
      dup == log_exists_in_attendance(d, e.u, e.ts, p, raisesA)
             \/ log_exists_in_raw_zoho(d, e.u, e.ts, p, raisesR)
      executed == SubSeq(InsertStatements(e), 1, Executed(failAt))
  IN IF dup THEN d
     ELSE ApplyStatements(d, Durable(executed, failAt = "none"))

insert_log_returns(d, e, raisesA, raisesR, failAt) ==
  LET p == PunchType(e.status)
  IN ~(log_exists_in_attendance(d, e.u, e.ts, p, raisesA)
       \/ log_exists_in_raw_zoho(d, e.u, e.ts, p, raisesR))
     /\ failAt = "none"

InsertEffect(e, raisesA, raisesR, failAt) ==
  /\ db' = insert_log_to_db(db, e, raisesA, raisesR, failAt)
  /\ \A t \in TableSet : Len(db'[t]) <= MaxRows
  /\ dirty' = (dirty \/ db' # db)
  /\ UNCHANGED <<remote, ckptFile, localFiles, run, runners, runs>>
  /\ UNCHANGED <<feed, ing, mg, ser, seq>>

\* a call of insert_log_to_db from the loop of fetch_zoho_attendance, seen
\* from the export: a call that leaves the tables as they are changes no
\* variable (a stuttering step), so only the calls that add rows are steps
InsertLogToDb(e, raisesA, raisesR, failAt) ==
  /\ InsertEffect(e, raisesA, raisesR, failAt)
  /\ db' # db
  /\ UNCHANGED lastIns

\* the same call, with what it did recorded in lastIns
IngestCall(e, raisesA, raisesR, failAt) ==
  LET p == PunchType(e.status)
  IN /\ InsertEffect(e, raisesA, raisesR, failAt)
     /\ lastIns' = [called |-> TRUE,
                    existed |-> HasKey(db["attendance_logs"], e.u, e.ts, p)
                                \/ HasKey(db["raw_zoho_logs"], e.u, e.ts, p),
                    failAt |-> failAt,
                    addedAtt |-> Len(db'["attendance_logs"])
                                 - Len(db["attendance_logs"]),
                    addedRaw |-> Len(db'["raw_zoho_logs"])
                                 - Len(db["raw_zoho_logs"]),
                    ret |-> insert_log_returns(db, e, raisesA, raisesR, failAt)]

\* ---- zoholog_to_db.py: the run over the feed ----
\* from_date.strftime("%d-%m-%Y"): the day of a time, two times to a day
Day(ts) == (ts + 1) \div 2

MaxOf(S) == CHOOSE m \in S : \A x \in S : x <= m

\* get_last_synced_timestamp: MAX(timestamp) of the rows with source 'zoho',
\* the lookback when there is none or the query raises
get_last_synced_timestamp(d, raises) ==
  LET tbl == d["attendance_logs"]
      ts == {tbl[i].ts : i \in {j \in 1..Len(tbl) : tbl[j].src = "zoho"}}
  IN IF raises \/ ts = {} THEN Lookback ELSE MaxOf(ts)

\* the events the feed holds from the cursor onward (fromDate is a day)
OnOrAfter(e, from_date) == Day(e.ts) >= Day(from_date)

FromCursor(f, from_date) ==
  SelectSeq(f, LAMBDA e : OnOrAfter(e, from_date))

\* the n-th page of the events a request asks for: a response carries at
\* most PageLen events
Page(events, n) ==
  SubSeq(events, (n - 1) * PageLen + 1,
         IF n * PageLen < Len(events) THEN n * PageLen ELSE Len(events))

\* the one requests.get of fetch_zoho_attendance: no page index is sent, the
\* response is the first page
Response(f, from_date) == Page(FromCursor(f, from_date), 1)

\* (variant for C16: the status of the response not looked at)
StatusIgnored(status) == TRUE

\* data.get("response", {}).get("status") != 0 makes the function return
StatusOk(status) == status = 0

EndIng(rec, end) == [rec EXCEPT !.pc = "done", !.end = end]

\* main: configure_logging(); token = get_access_token(), which re-raises
GetAccessToken(ok) ==
  /\ ing.pc \in {"idle", "done"}
  /\ ing.n < MaxRuns
  /\ ing' = IF ok
            THEN [IdleIng EXCEPT !.pc = "cursor", !.n = ing.n + 1,
                                 !.n0 = Len(db["attendance_logs"])]
            ELSE [IdleIng EXCEPT !.pc = "done", !.n = ing.n + 1,
                                 !.n0 = Len(db["attendance_logs"]),
                                 !.end = "tokenError"]
  /\ UNCHANGED <<exportVars, feed, mg, ser, seq>>

\* from_date = get_last_synced_timestamp()
GetLastSynced(raises) ==
  /\ ing.pc = "cursor"
  /\ ing' = [ing EXCEPT !.pc = "request",
                        !.from_date = get_last_synced_timestamp(db, raises)]
  /\ UNCHANGED <<exportVars, feed, mg, ser, seq>>

\* requests.get(...); data = res.json(); the status check
Request(raises, status) ==
  /\ ing.pc = "request"
  /\ ing' = IF raises THEN EndIng(ing, "requestError")
            ELSE IF ~StatusOk(status)
            THEN EndIng([ing EXCEPT !.status = status], "badStatus")
            ELSE [ing EXCEPT !.pc = "process", !.status = status, !.k = 1,
                             !.events = Response(feed, ing.from_date)]
  /\ UNCHANGED <<exportVars, feed, mg, ser, seq>>

\* one checkInTime / checkOutTime of the loops: datetime.strptime, then
\* insert_log_to_db; an exception leaves the loops for the outer except
ProcessEvent(parseOk, fault) ==
  /\ ing.pc = "process"
  /\ ing.k <= Len(ing.events)
  /\ LET e == ing.events[ing.k]
     IN IF ~parseOk
        THEN /\ ing' = EndIng(ing, "parseError")
             /\ UNCHANGED db
        ELSE /\ db' = insert_log_to_db(db, e, RaisesA(fault), RaisesR(fault),
                                       FailAt(fault))
             /\ \A t \in TableSet : Len(db'[t]) <= MaxRows
             /\ ing' = [ing EXCEPT
                          !.k = @ + 1,
                          !.checked = @ \cup {e},
                          !.inserted_count =
                            IF insert_log_returns(db, e, RaisesA(fault),
                                                  RaisesR(fault), FailAt(fault))
                            THEN @ + 1 ELSE @]
  /\ UNCHANGED <<remote, ckptFile, localFiles, run, runners, runs, dirty,
                 lastIns, feed, mg, ser, seq>>

\* the loops are through: the count is logged and the function returns
FetchDone ==
  /\ ing.pc = "process"
  /\ ing.k > Len(ing.events)
  /\ ing' = EndIng(ing, "complete")
  /\ UNCHANGED <<exportVars, feed, mg, ser, seq>>

\* ---- incremental_backup.py: the export run ----
\* load_last_backup_times: the file's mapping, or the defaults when the file
\* does not exist (a file that is not JSON makes json.load raise)
load_last_backup_times(file) == IF file.st = "absent" THEN EpochMap ELSE file.m

\* save_last_backup_times: open(..., "w") truncates the file, json.dump then
\* writes the mapping; outcome "openFail": open raises, the file is as before;
\* "writeFail": the write stops after the truncation
Truncated == [st |-> "corrupt", m |-> EpochMap]

save_last_backup_times(file, times, outcome) ==
  CASE outcome = "ok" -> [st |-> "ok", m |-> times]
    [] outcome = "openFail" -> file
    [] OTHER -> Truncated

SaveOutcomes == {"ok", "openFail", "writeFail"}

\* updated_times[table] = new_time, after upload_to_gdrive returned True
\* (variant for C13: the map rebuilt from the defaults, not from the copy)
AdvanceFromDefaults(upd, t, new_time) == [EpochMap EXCEPT ![t] = new_time]

Advance(upd, t, new_time) == [upd EXCEPT ![t] = new_time]

\* the loop of main moves to the next table, and to save after the last one
NextTable(rec) ==
  IF rec.i < Len(TABLES)
  THEN [rec EXCEPT !.i = @ + 1, !.pc = "backup"]
  ELSE [rec EXCEPT !.pc = "save"]

\* an exception reaches "except Exception" of main: the run ends there
End(result) == [IdleRun EXCEPT !.result = result]

\* (variant for C14: the exception swallowed, the run goes on to the tables)
RaiseSwallowed(rec) == [rec EXCEPT !.pc = "backup"]

Raise(rec) == End("error")

\* the exit code of the process: main returns after "except Exception" and
\* after the return on a failed authentication, and nothing calls sys.exit;
\* only the exception of load_last_backup_times, raised outside the try,
\* leaves the process with a traceback and code 1
ExitCode(result) == IF result = "crashed" THEN 1 ELSE 0

\* main starts: load_last_backup_times(), outside the try
Start(r) ==
  /\ r \in runners
  /\ run[r].pc = "idle"
  /\ runs < MaxRuns
  /\ runs' = runs + 1
  /\ dirty' = FALSE
  /\ run' = [run EXCEPT ![r] =
               IF ckptFile.st = "corrupt"
               THEN End("crashed")
               ELSE [IdleRun EXCEPT !.pc = "connect",
                                    !.last = load_last_backup_times(ckptFile),
                                    !.quiet = (run[r].result = "ok" /\ ~dirty)]]
  /\ UNCHANGED <<db, remote, ckptFile, localFiles, runners, lastIns,
               feed, ing, mg, ser, seq>>

\* mysql.connector.connect and conn.cursor()
Connect(r, ok) ==
  /\ run[r].pc = "connect"
  /\ run' = [run EXCEPT ![r] =
               IF ok THEN [@ EXCEPT !.pc = "auth"] ELSE Raise(@)]
  /\ UNCHANGED <<db, remote, ckptFile, localFiles, runners, runs, dirty, lastIns,
               feed, ing, mg, ser, seq>>

\* authenticate_gdrive: None makes main return; then updated_times = copy
Auth(r, ok) ==
  /\ run[r].pc = "auth"
  /\ run' = [run EXCEPT ![r] =
               IF ok
               THEN [@ EXCEPT !.pc = "backup", !.i = 1, !.upd = run[r].last]
               ELSE End("aborted")]
  /\ UNCHANGED <<db, remote, ckptFile, localFiles, runners, runs, dirty, lastIns,
               feed, ing, mg, ser, seq>>

\* backup_table for TABLES[i]: fetch, and write the local increment file
Backup(r, fetchOk, fileOk) ==
  /\ run[r].pc = "backup"
  /\ LET t == TABLES[run[r].i]
         rows == FetchRows(db[t], run[r].last[t])
     IN IF ~fetchOk
        THEN /\ run' = [run EXCEPT ![r] = Raise(@)]
             /\ UNCHANGED localFiles
        ELSE IF rows = <<>>
        THEN /\ run' = [run EXCEPT ![r] = NextTable(@)]
             /\ UNCHANGED localFiles
        ELSE IF ~fileOk
        THEN /\ run' = [run EXCEPT ![r] = Raise(@)]
             /\ UNCHANGED localFiles
        ELSE /\ run' = [run EXCEPT ![r] =
                          [@ EXCEPT !.pc = "merge", !.rows = rows,
                                    !.newTime = NewLastTime(db[t], rows),
                                    !.fetched[t] = rows]]
             /\ localFiles' = localFiles \cup {t}
  /\ UNCHANGED <<db, remote, ckptFile, runners, runs, dirty, lastIns,
               feed, ing, mg, ser, seq>>

\* upload_to_gdrive up to the new content: find_drive_file, then the create
\* branch or download_drive_file_content and the append branch
Merge(r, findOk, dlOk) ==
  /\ run[r].pc = "merge"
  /\ LET t == TABLES[run[r].i]
         new_rows == Values(run[r].rows)
     IN run' = [run EXCEPT ![r] =
          IF ~findOk THEN Raise(@)
          ELSE IF remote[t] = NoFile
          THEN [@ EXCEPT !.pc = "upload",
                         !.content = NewContent(remote[t], new_rows, ~dlOk)]
          ELSE [@ EXCEPT !.pc = "upload",
                         !.content = NewContent(remote[t], new_rows, ~dlOk),
                         !.dlFailed = IF dlOk THEN @ ELSE @ \cup {t}]]
  /\ UNCHANGED <<db, remote, ckptFile, localFiles, runners, runs, dirty, lastIns,
               feed, ing, mg, ser, seq>>

\* file.SetContentString(...); file.Upload(); return True; and then
\* updated_times[table] = new_time in main
Upload(r, ok) ==
  /\ run[r].pc = "upload"
  /\ LET t == TABLES[run[r].i]
     IN IF ok
        THEN /\ remote' = [remote EXCEPT ![t] = run[r].content]
             /\ run' = [run EXCEPT ![r] =
                          NextTable([@ EXCEPT !.upd = Advance(@, t, run[r].newTime),
                                              !.okUp = @ \cup {t}])]
        ELSE /\ run' = [run EXCEPT ![r] = Raise(@)]
             /\ UNCHANGED remote
  /\ UNCHANGED <<db, ckptFile, localFiles, runners, runs, dirty, lastIns,
               feed, ing, mg, ser, seq>>

\* save_last_backup_times(updated_times), the last statement of the try
Save(r, outcome) ==
  /\ run[r].pc = "save"
  /\ ckptFile' = save_last_backup_times(ckptFile, run[r].upd, outcome)
  /\ run' = [run EXCEPT ![r] = End(IF outcome = "ok" THEN "ok" ELSE "error")]
  /\ UNCHANGED <<db, remote, localFiles, runners, runs, dirty, lastIns,
               feed, ing, mg, ser, seq>>

Next ==
  \/ \E e \in CheckIns, f \in Faults :
       InsertLogToDb(e, RaisesA(f), RaisesR(f), FailAt(f))
  \/ \E r \in Runners : Start(r)
  \/ \E r \in Runners, ok \in BOOLEAN : Connect(r, ok)
  \/ \E r \in Runners, ok \in BOOLEAN : Auth(r, ok)
  \/ \E r \in Runners, f \in BOOLEAN, w \in BOOLEAN : Backup(r, f, w)
  \/ \E r \in Runners, f \in BOOLEAN, d \in BOOLEAN : Merge(r, f, d)
  \/ \E r \in Runners, ok \in BOOLEAN : Upload(r, ok)
  \/ \E r \in Runners, o \in SaveOutcomes : Save(r, o)

Spec == Init /\ [][Next]_vars

\* two processes run main() of incremental_backup.py at the same time
InitConc ==
  /\ InitExport
  /\ runners = Runners
  /\ feed = <<>>
  /\ ing = IdleIng
  /\ mg = NoMerge(NoFile, <<>>)
  /\ ser = NoSer(<<>>)
  /\ seq = IdleSeq

\* the inserts and the steps of the runs interleave; every step succeeds, so
\* what is seen comes from the interleaving alone
NextNoFault ==
  \/ \E e \in CheckIns : InsertLogToDb(e, FALSE, FALSE, "none")
  \/ \E r \in Runners : Start(r)
  \/ \E r \in Runners : Connect(r, TRUE)
  \/ \E r \in Runners : Auth(r, TRUE)
  \/ \E r \in Runners : Backup(r, TRUE, TRUE)
  \/ \E r \in Runners : Merge(r, TRUE, TRUE)
  \/ \E r \in Runners : Upload(r, TRUE)
  \/ \E r \in Runners : Save(r, "ok")

SpecConc == InitConc /\ [][NextNoFault]_vars

\* one runner, inserts between and during its runs, every step succeeds
SpecArchive == Init /\ [][NextNoFault]_vars

\* the ingest alone, each call observed
NextIngest ==
  \E e \in Events, f \in Faults :
    IngestCall(e, RaisesA(f), RaisesR(f), FailAt(f))

SpecIngest == Init /\ [][NextIngest]_vars

\* the run of zoholog_to_db.py over a feed of up to MaxFeed events, each
\* event held once
Feeds == {f \in Seqs(Events, MaxFeed) : NoRepeat(f)}

InitFeed ==
  /\ InitExport
  /\ runners = {1}
  /\ feed \in Feeds
  /\ ing = IdleIng
  /\ mg = NoMerge(NoFile, <<>>)
  /\ ser = NoSer(<<>>)
  /\ seq = IdleSeq

NextFeed ==
  \/ \E ok \in BOOLEAN : GetAccessToken(ok)
  \/ \E raises \in BOOLEAN : GetLastSynced(raises)
  \/ \E raises \in BOOLEAN, status \in {0, 1} : Request(raises, status)
  \/ \E parseOk \in BOOLEAN, f \in Faults : ProcessEvent(parseOk, f)
  \/ FetchDone

SpecFeed == InitFeed /\ [][NextFeed]_vars

\* ---- reading a remote object and the checkpoint file ----
IsTup(x) == x.k = "TUP"

\* the value tuples of a content, in order
Tuples(content) == SelectSeq(content, IsTup)

\* one complete statement: the header, one or more value tuples joined by
\* the record separator, and the terminator once, at the end
Complete(content) ==
  /\ Tuples(content) # <<>>
  /\ content = Header \o JoinValues(Tuples(content)) \o <<SEMI, NL>>

\* a statement whose terminator is missing: the header and the joined value
\* tuples, then nothing or a newline
Unterminated(content) ==
  /\ Tuples(content) # <<>>
  /\ \E trail \in {<<>>, <<NL>>} :
       content = Header \o JoinValues(Tuples(content)) \o trail

\* ---- generate_insert_components called on given rows ----
\* rows of one column with every value, rows of two columns with some
SomeCells ==
  {NullValue, IntValue(-MaxInt), FloatValue(FALSE, 1, 5),
   TextValue(<<"'">>), TextValue(<<"a">>)}

SomeRows == {<<v, w>> : v \in SomeCells, w \in SomeCells}

RowSet == {<<v>> : v \in CellValues} \cup SomeRows

\* no rows, or a first row of RowSet followed by rows of SomeRows
RowSeqs ==
  {<<>>} \cup {<<r>> \o rest : r \in RowSet, rest \in Seqs(SomeRows, MaxRows - 1)}

InitSer ==
  /\ InitExport
  /\ runners = {1}
  /\ feed = <<>>
  /\ ing = IdleIng
  /\ mg = NoMerge(NoFile, <<>>)
  /\ ser \in {NoSer(rows) : rows \in RowSeqs}
  /\ seq = IdleSeq

GenerateInsertComponents ==
  /\ ~ser.called
  /\ ser' = [ser EXCEPT !.called = TRUE,
                        !.out = generate_insert_components(ser.rows)]
  /\ UNCHANGED <<exportVars, feed, ing, mg, seq>>

NextSer == GenerateInsertComponents

SpecSer == InitSer /\ [][NextSer]_vars

\* ---- run_all.py ----
\* time.sleep(10)
Sleep ==
  /\ seq.pc = "sleep"
  /\ seq' = [seq EXCEPT !.pc = "start"]
  /\ UNCHANGED <<exportVars, feed, ing, mg, ser>>

\* subprocess.run([PYTHON_EXECUTABLE, script], check=True): the script starts
StartScript ==
  /\ seq.pc = "start"
  /\ seq' = [seq EXCEPT !.pc = "wait", !.started = Append(@, seq.i)]
  /\ UNCHANGED <<exportVars, feed, ing, mg, ser>>

\* (variant for C20: the sequence stopped by the failure of any script)
ContinuesOnSuccess(code, must_run) == code = 0

\* the loop goes on after a script unless CalledProcessError was raised for
\* a script that is not must_run (break)
Continues(code, must_run) == code = 0 \/ must_run

\* the script exits with the code; the loop goes on or ends
ScriptExits(code) ==
  /\ seq.pc = "wait"
  /\ seq' = [seq EXCEPT
               !.codes = Append(@, code),
               !.i = @ + 1,
               !.pc = IF Continues(code, scripts[seq.i].must_run)
                         /\ seq.i < Len(scripts)
                      THEN "start" ELSE "done"]
  /\ UNCHANGED <<exportVars, feed, ing, mg, ser>>

NextSeq ==
  \/ Sleep
  \/ StartScript
  \/ \E code \in ExitCodes : ScriptExits(code)

\* every script that was started exits: the sleep ends, the next script is
\* started, the child process ends
SpecSeq ==
  /\ Init
  /\ [][NextSeq]_vars
  /\ WF_vars(Sleep)
  /\ WF_vars(StartScript)
  /\ WF_vars(\E code \in ExitCodes : ScriptExits(code))

\* ---- reading a value tuple back ----
\* the cells of the text between the parentheses: split at ", " outside
\* single quotes
RECURSIVE Split(_, _, _, _)
Split(txt, inq, cur, acc) ==
  IF txt = <<>> THEN Append(acc, cur)
  ELSE IF Head(txt) = "'"
  THEN Split(Tail(txt), ~inq, Append(cur, "'"), acc)
  ELSE IF ~inq /\ Head(txt) = "," /\ Len(txt) >= 2 /\ txt[2] = " "
  THEN Split(Tail(Tail(txt)), inq, <<>>, Append(acc, cur))
  ELSE Split(Tail(txt), inq, Append(cur, Head(txt)), acc)

CellsOf(tuple) ==
  IF Len(tuple) >= 2 /\ tuple[1] = "(" /\ tuple[Len(tuple)] = ")"
  THEN Split(SubSeq(tuple, 2, Len(tuple) - 1), FALSE, <<>>, <<>>)
  ELSE <<>>

IsDigits(txt) == txt # <<>> /\ \A i \in 1..Len(txt) : txt[i] \in Range(DigitChars)

DigitVal(c) == CHOOSE d \in 0..9 : DigitChars[d + 1] = c

RECURSIVE NatVal(_)
NatVal(txt) ==
  IF Len(txt) = 1 THEN DigitVal(txt[1])
  ELSE NatVal(SubSeq(txt, 1, Len(txt) - 1)) * 10 + DigitVal(txt[Len(txt)])

Unsigned(txt) == IF txt # <<>> /\ Head(txt) = "-" THEN Tail(txt) ELSE txt

\* the text is the decimal numeral of n
IsDecimalOf(txt, n) ==
  /\ IsDigits(Unsigned(txt))
  /\ (Len(Unsigned(txt)) > 1 => Unsigned(txt)[1] # "0")
  /\ (txt[1] = "-") <=> (n < 0)
  /\ NatVal(Unsigned(txt)) = (IF n < 0 THEN -n ELSE n)

\* the text is sign, integer digits, ".", fractional digits of the float
IsDecimalOfFloat(txt, v) ==
  \E k \in 1..Len(Unsigned(txt)) :
    LET u == Unsigned(txt)
        ip == SubSeq(u, 1, k - 1)
        fp == SubSeq(u, k + 1, Len(u))
    IN /\ u[k] = "."
       /\ IsDigits(ip) /\ IsDigits(fp)
       /\ NatVal(ip) = v.i /\ NatVal(fp) = v.f /\ Len(fp) = 1
       /\ (txt[1] = "-") <=> v.neg

\* the characters a quoted text stands for: '' is one quote; "?" marks a
\* quote that is not doubled
RECURSIVE Unquote(_)
Unquote(inner) ==
  IF inner = <<>> THEN <<>>
  ELSE IF Head(inner) = "'"
  THEN IF Len(inner) >= 2 /\ inner[2] = "'"
       THEN <<"'">> \o Unquote(Tail(Tail(inner)))
       ELSE <<"?">>
  ELSE <<Head(inner)>> \o Unquote(Tail(inner))

\* the text is the rendering the serializer's rules give the value
Rendered(value, txt) ==
  CASE value.t = "null" -> txt = <<"N", "U", "L", "L">>
    [] value.t = "int" -> IsDecimalOf(txt, value.n)
    [] value.t = "float" -> IsDecimalOfFloat(txt, value)
    [] OTHER -> /\ Len(txt) >= 2
                /\ txt[1] = "'" /\ txt[Len(txt)] = "'"
                /\ Unquote(SubSeq(txt, 2, Len(txt) - 1)) = value.s

\* ---- upload_to_gdrive called on a given object with a given payload ----
TupleSeqs == Seqs({Tup(i) : i \in 1..MaxRows}, MaxRows)

Payloads == TupleSeqs \ {<<>>}

\* the objects a call can find: none, a complete statement, a statement
\* without its terminator
Objects ==
  {NoFile}
  \cup {Header \o JoinValues(ts) \o trail :
          ts \in Payloads, trail \in {<<SEMI, NL>>, <<>>, <<NL>>}}

InitMerge ==
  /\ InitExport
  /\ runners = {1}
  /\ feed = <<>>
  /\ ing = IdleIng
  /\ mg \in {NoMerge(c, pl) : c \in Objects, pl \in Payloads}
  /\ ser = NoSer(<<>>)
  /\ seq = IdleSeq

\* one call upload_to_gdrive(drive, filename, (header, payload))
UploadToGdrive(findOk, dlOk, upOk) ==
  /\ mg.calls < 2
  /\ mg' = IF findOk /\ upOk
           THEN [mg EXCEPT
                   !.calls = @ + 1,
                   !.obj = NewContent(mg.obj, mg.payload, ~dlOk),
                   !.dlFailed = @ \/ (mg.obj # NoFile /\ ~dlOk)]
           ELSE [mg EXCEPT !.calls = @ + 1, !.raised = TRUE]
  /\ UNCHANGED <<exportVars, feed, ing, ser, seq>>

NextMerge ==
  \E findOk \in BOOLEAN, dlOk \in BOOLEAN, upOk \in BOOLEAN :
    UploadToGdrive(findOk, dlOk, upOk)

SpecMerge == InitMerge /\ [][NextMerge]_vars

MaxTs(tbl, ids) == CHOOSE m \in {tbl[i].ts : i \in Range(ids)} :
                     \A i \in Range(ids) : tbl[i].ts <= m

\* the watermark the file holds for a table; -1 when the file holds none
Persisted(file, t) ==
  IF file.st = "corrupt" THEN -1 ELSE load_last_backup_times(file)[t]

InTable(r) == run[r].pc \in {"backup", "merge", "upload"}

\* ---- claims ----

\* C1: the watermark persisted for a source changes in a run only if
\* upload_to_gdrive succeeded for that source in that run, with the rows the
\* run fetched in the uploaded content; a failed remote write leaves the
\* file as it was.  Stated as the original claim; the code violates it.
C1Claim ==
  [][/\ \A t \in TableSet :
          Persisted(ckptFile', t) # Persisted(ckptFile, t)
          => \E r \in Runners :
               /\ run[r].pc = "save"
               /\ t \in run[r].okUp
               /\ \A id \in Range(run[r].fetched[t]) :
                    Tup(id) \in Range(remote[t])
     /\ \A r \in Runners :
          run[r].pc = "upload" /\ run'[r].pc = "idle" => ckptFile' = ckptFile
    ]_vars

\* C2: a run fetches only rows that are not yet in the source's remote
\* object, so no row's value tuple is in a remote object more than once.
\* Stated as the original claim; the code violates it.
C2Claim ==
  /\ \A t \in TableSet : remote[t] # NoFile => NoRepeat(Tuples(remote[t]))
  /\ \A r \in Runners :
       run[r].pc = "merge"
       => \A id \in Range(run[r].rows) :
            Tup(id) \notin Range(remote[TABLES[run[r].i]])

\* C3: a failure while a source is processed does not end the run: the run
\* goes on with the next source and reaches the one save.  Stated as the
\* original claim; the code violates it.
C3Claim ==
  [][\A r \in Runners :
       InTable(r) => (InTable(r))' \/ run'[r].pc = "save"]_vars

\* C4: a successful append to a complete object of N tuples with a payload
\* of M tuples leaves a complete object whose tuples are the N, then the M,
\* also when the download of the existing content failed.  Stated as the
\* original claim; the code violates it.
C4Claim ==
  [][\A r \in Runners :
       LET t == TABLES[run[r].i]
       IN (run[r].pc = "upload" /\ remote'[t] # remote[t]
           /\ remote[t] # NoFile /\ Complete(remote[t]))
          => /\ Tuples(remote'[t]) = Tuples(remote[t]) \o Values(run[r].rows)
             /\ Complete(remote'[t])]_vars

\* C5: every remote object that exists is one complete statement.  Stated
\* as the original claim; the code violates it.
C5Claim == \A t \in TableSet : remote[t] # NoFile => Complete(remote[t])

\* C6: the watermark set after a successful upload is the greatest timestamp
\* of the rows exported and is not below the old one; the watermark saved
\* for such a source is that value; and from one readable checkpoint file to
\* the next no source's watermark decreases.
C6Theorem ==
  [][/\ \A r \in Runners : \A t \in run'[r].okUp :
          /\ run'[r].upd[t] = MaxTs(db'[t], run'[r].fetched[t])
          /\ run'[r].upd[t] >= run'[r].last[t]
     /\ \A r \in Runners :
          (run[r].pc = "save" /\ ckptFile'.st = "ok" /\ ckptFile' # ckptFile)
          => \A t \in run[r].okUp :
               ckptFile'.m[t] = MaxTs(db[t], run[r].fetched[t])
     /\ (ckptFile.st # "corrupt" /\ ckptFile'.st # "corrupt")
        => \A t \in TableSet :
             Persisted(ckptFile', t) >= Persisted(ckptFile, t)
    ]_vars

\* a second advance: a run is about to save a watermark above the one a
\* previous run persisted
C6Witness ==
  \E r \in Runners, t \in TableSet :
    /\ run[r].pc = "save" /\ t \in run[r].okUp
    /\ ckptFile.st = "ok" /\ ckptFile.m[t] > Epoch
    /\ run[r].upd[t] > ckptFile.m[t]

\* C7: in a run that follows a run which ended without failure, with no row
\* inserted since that run started, every fetch returns no row, no remote
\* object is created or updated, and the watermarks the file holds stay.
C7Theorem ==
  [][\A r \in Runners :
       (run[r].quiet /\ ~dirty)
       => /\ remote' = remote
          /\ run'[r].pc \notin {"merge", "upload"}
          /\ run'[r].okUp = {}
          /\ \A t \in TableSet : run'[r].fetched[t] = <<>>
          /\ ckptFile'.st # "corrupt"
             => \A t \in TableSet :
                  Persisted(ckptFile', t) = Persisted(ckptFile, t)
    ]_vars

\* the second run went through all tables of a non-empty archive
C7Witness ==
  \E r \in Runners :
    /\ run[r].quiet /\ ~dirty /\ run[r].pc = "save"
    /\ \E t \in TableSet : remote[t] # NoFile /\ Persisted(ckptFile, t) > Epoch

\* C8: save_last_backup_times leaves the file holding the complete old or
\* the complete new mapping, whatever happens during it.  Stated as the
\* original claim; the code violates it.
C8Claim ==
  [][\A r \in Runners :
       run[r].pc = "save"
       => \/ ckptFile' = ckptFile
          \/ ckptFile' = [st |-> "ok", m |-> run[r].upd]]_vars

\* C9: a call of insert_log_to_db for an event whose key is already in
\* attendance_logs or raw_zoho_logs adds no row, also when an existence
\* check raises.  Stated as the original claim; the code violates it.
C9Claim ==
  (lastIns.called /\ lastIns.existed)
  => (lastIns.addedAtt = 0 /\ lastIns.addedRaw = 0)

\* C10: a call of insert_log_to_db adds the attendance_logs row and the
\* raw_zoho_logs row of its event, or neither, whichever step fails; it
\* returns True exactly when it added them.
C10Theorem ==
  /\ lastIns.addedAtt = lastIns.addedRaw
  /\ lastIns.addedAtt \in {0, 1}
  /\ lastIns.ret <=> lastIns.addedAtt = 1
  /\ Len(db["attendance_logs"]) = Len(db["raw_zoho_logs"])

\* a call that failed at the second INSERT, after a call that added both rows
C10Witness ==
  /\ lastIns.called /\ ~lastIns.existed /\ lastIns.failAt = "insert2"
  /\ lastIns.addedAtt = 0 /\ lastIns.addedRaw = 0
  /\ Len(db["attendance_logs"]) >= 1

\* C11: a run of fetch_zoho_attendance in which no request failed has passed
\* every event the feed holds from the cursor onward to the dedup check: the
\* pages after the first are requested too.  Stated as the original claim;
\* the code violates it.
C11Claim ==
  (ing.pc = "done" /\ ing.end = "complete")
  => \A i \in 1..Len(feed) :
       OnOrAfter(feed[i], ing.from_date) => feed[i] \in ing.checked

\* C16: a response whose status is not 0 ends the run with no event passed
\* to insert_log_to_db and the tables as they were; the step at which the
\* processing fails leaves the tables as they are, rows are only ever added
\* at the end of a table (nothing inserted before is taken back), and after
\* the run has ended no row is inserted.
C16Theorem ==
  [][/\ (ing.pc = "request" /\ ing'.pc # "request" /\ ing'.status # 0)
        => (ing'.pc = "done" /\ db' = db)
     /\ ing'.status # 0 => (ing'.checked = {} /\ ing'.inserted_count = 0)
     /\ (ing.pc = "process" /\ ing'.end \in {"parseError", "requestError"})
        => db' = db
     /\ ing.pc = "done" => db' = db
     /\ \A t \in TableSet :
          /\ Len(db'[t]) >= Len(db[t])
          /\ SubSeq(db'[t], 1, Len(db[t])) = db[t]
     /\ Len(db'["attendance_logs"]) = ing'.n0 + ing'.inserted_count
     /\ Len(db'["raw_zoho_logs"]) = Len(db'["attendance_logs"])
    ]_vars

\* the run ended at an event that did not parse, after it had inserted an
\* event; the rows of that event are in both tables
C16Witness ==
  /\ ing.pc = "done" /\ ing.end = "parseError"
  /\ ing.inserted_count >= 1
  /\ ing.k = 2 /\ Len(ing.events) = 2
  /\ \E e \in ing.checked :
       /\ HasKey(db["attendance_logs"], e.u, e.ts, PunchType(e.status))
       /\ HasKey(db["raw_zoho_logs"], e.u, e.ts, PunchType(e.status))

\* C12: when the object holds N value tuples and its terminator is missing,
\* a call of upload_to_gdrive that read the content and uploaded leaves the
\* N tuples, then the M tuples of the payload, joined by the record
\* separator after the header, with the terminator once, at the end.
C12Theorem ==
  (mg.calls = 1 /\ ~mg.raised /\ ~mg.dlFailed /\ Unterminated(mg.before))
  => /\ Tuples(mg.obj) = Tuples(mg.before) \o mg.payload
     /\ Complete(mg.obj)

\* the scenario of the claim: two tuples, no terminator, one tuple appended
C12Witness ==
  /\ mg.calls = 1 /\ ~mg.raised /\ ~mg.dlFailed
  /\ mg.before = Header \o JoinValues(<<Tup(1), Tup(2)>>)
  /\ Len(mg.payload) = 1
  /\ Len(Tuples(mg.obj)) = 3

\* C17: two successive calls of upload_to_gdrive with the same payload of M
\* tuples, each of which read the content (when there was one) and uploaded,
\* leave the tuples the object held before, then the payload twice, still one
\* statement with the terminator once, at the end.
C17Theorem ==
  (mg.calls = 2 /\ ~mg.raised /\ ~mg.dlFailed)
  => /\ Tuples(mg.obj) = Tuples(mg.before) \o mg.payload \o mg.payload
     /\ Len(Tuples(mg.obj)) = Len(Tuples(mg.before)) + 2 * Len(mg.payload)
     /\ Complete(mg.obj)

\* the first call created the object, the second appended to it
C17Witness ==
  /\ mg.calls = 2 /\ ~mg.raised /\ ~mg.dlFailed
  /\ mg.before = NoFile
  /\ Len(mg.payload) = 2
  /\ Len(Tuples(mg.obj)) = 4

\* C13: with two runs at the same time, the checkpoint file suffers no lost
\* update and no regression: from one readable file to the next no source's
\* watermark decreases.  Stated as the original claim; the code violates it.
C13Claim ==
  [][(ckptFile.st # "corrupt" /\ ckptFile'.st # "corrupt")
     => \A t \in TableSet :
          Persisted(ckptFile', t) >= Persisted(ckptFile, t)]_vars

\* C13 as amended: the checkpoint file is under the same read-modify-write
\* race as the remote object.  A save writes the mapping the run loaded at
\* its start, changed only for the sources the run uploaded; so it lowers a
\* source's watermark only when the file was changed between the run's load
\* and its save.
C13Theorem ==
  [][\A r \in Runners :
       (run[r].pc = "save" /\ run'[r].pc = "idle" /\ ckptFile'.st = "ok")
       => /\ \A t \in TableSet \ run[r].okUp :
               ckptFile'.m[t] = run[r].last[t]
          /\ (\E t \in TableSet :
                Persisted(ckptFile', t) < Persisted(ckptFile, t))
             => load_last_backup_times(ckptFile) # run[r].last]_vars

\* a run is about to save while the file is no longer what it loaded: the
\* other run has saved a higher watermark in between
C13Witness ==
  \E r \in Runners, t \in TableSet :
    /\ run[r].pc = "save"
    /\ ckptFile.st = "ok"
    /\ ckptFile.m[t] > run[r].last[t]
    /\ run[r].upd[t] < ckptFile.m[t]

\* C14: from the connection step a run goes to the authentication or ends,
\* from the authentication it goes to the first table or ends; a run that
\* ends there has issued no fetch and uploaded nothing, and its last step
\* leaves the remote objects, the local increment files and the checkpoint
\* file as they were.
C14Theorem ==
  [][\A r \in Runners :
       /\ run[r].pc = "connect" => run'[r].pc \in {"connect", "auth", "idle"}
       /\ run[r].pc = "auth" => run'[r].pc \in {"auth", "backup", "idle"}
       /\ (run[r].pc \in {"connect", "auth"} /\ run'[r].pc = "idle")
          => /\ run'[r].result \in {"error", "aborted"}
             /\ \A t \in TableSet : run[r].fetched[t] = <<>>
             /\ run[r].okUp = {}
             /\ remote' = remote
             /\ localFiles' = localFiles
             /\ ckptFile' = ckptFile
             /\ db' = db]_vars

\* rows were waiting and the authentication failed: nothing was exported
C14Witness ==
  \E r \in Runners :
    /\ run[r].pc = "idle" /\ run[r].result = "aborted"
    /\ db["attendance_logs"] # <<>>
    /\ remote["attendance_logs"] = NoFile
    /\ localFiles = {}
    /\ ckptFile.st = "absent"

\* C15: the process ends with a non-zero exit code exactly when a top-level
\* error occurred (the connection cannot be established); the failure of a
\* source gives no non-zero code by itself, and no exception leaves main.
\* Stated as the original claim; the code violates it.
C15Claim ==
  [][\A r \in Runners :
       /\ (run[r].pc = "connect" /\ run'[r].pc = "idle")
          => ExitCode(run'[r].result) # 0
       /\ (InTable(r) /\ run'[r].pc = "idle")
          => ExitCode(run'[r].result) = 0
       /\ run'[r].result # "crashed"]_vars

\* C18: for rows that are not empty generate_insert_components returns the
\* header and one value tuple per row, in row order; read back, the i-th
\* tuple has one cell per value of the i-th row, in order: NULL for None, the
\* unquoted decimal numeral for a number, and for anything else the quoted
\* text with each quote doubled and every other character as it is.  For no
\* rows it returns (None, None).
C18Theorem ==
  ser.called
  => /\ ser.out.none <=> ser.rows = <<>>
     /\ ser.rows # <<>>
        => /\ ser.out.header = Header
           /\ Len(ser.out.values) = Len(ser.rows)
           /\ \A i \in 1..Len(ser.rows) :
                LET cells == CellsOf(ser.out.values[i])
                IN /\ Len(cells) = Len(ser.rows[i])
                   /\ \A j \in 1..Len(cells) :
                        Rendered(ser.rows[i][j], cells[j])

\* two rows, the first a text with a quote in it
C18Witness ==
  /\ ser.called
  /\ Len(ser.rows) = 2
  /\ ser.rows[1] = <<TextValue(<<"a", "'">>)>>
  /\ ser.rows[2] = <<NullValue, IntValue(-MaxInt)>>
  /\ ser.out.values[1] = <<"(", "'", "a", "'", "'", "'", ")">>
  /\ ser.out.values[2] = <<"(", "N", "U", "L", "L", ",", " ", "-">>
                            \o Digits(MaxInt) \o <<")">>

\* C19: when a run has fetched a source, every row the table holds at that
\* time is among the rows fetched or already in the source's remote object,
\* and a successful upload puts the fetched rows into the object: no row is
\* left out because its timestamp is not above the watermark.  Stated as the
\* original claim; the code violates it.
C19Claim ==
  [][\A r \in Runners :
       LET t == TABLES[run[r].i]
       IN /\ (run[r].pc = "backup" /\ run'[r] # run[r])
             => \A id \in 1..Len(db[t]) :
                  \/ id \in Range(FetchRows(db[t], run[r].last[t]))
                  \/ Tup(id) \in Range(remote[t])
          /\ (run[r].pc = "upload" /\ run'[r] # run[r])
             => \A id \in Range(run[r].rows) : Tup(id) \in Range(remote'[t])
    ]_vars

\* what holds of run_all.py in every state: the order of the starts, and at
\* the end which scripts were started
SeqSafe ==
  /\ \A j \in 1..Len(seq.started) : seq.started[j] = j
  /\ Len(seq.started) <= Len(scripts)
  /\ Len(seq.codes) = (IF seq.pc = "wait" THEN Len(seq.started) - 1
                       ELSE Len(seq.started))
  /\ seq.pc = "done"
     => /\ \A j \in 1..Len(scripts) :
             scripts[j].must_run => j \in Range(seq.started)
        /\ \A j \in 1..Len(seq.codes) :
             /\ (seq.codes[j] # 0 /\ ~scripts[j].must_run)
                => Len(seq.started) = j
             /\ ((seq.codes[j] = 0 \/ scripts[j].must_run) /\ j < Len(scripts))
                => Len(seq.started) > j

====
